---- MODULE Spec2Model ----
(***************************************************************************)
(* Model of the SQLite bootstrap script database/init_db.py and of the     *)
(* single-statement shell database/db_shell.py.                            *)
(*                                                                         *)
(* The store is the database file: its catalog (sqlite_master), the rows   *)
(* of app_info and todos and the AUTOINCREMENT counters (sqlite_sequence). *)
(* `disk` is what is committed, `tx` is what the script's connection sees  *)
(* (committed state plus its own uncommitted writes).  Python's sqlite3    *)
(* module opens a transaction implicitly before INSERT/REPLACE/UPDATE/     *)
(* DELETE and not before DDL, so the CREATE statements of the script are   *)
(* committed as they execute and its DML is held until conn.commit().      *)
(*                                                                         *)
(* Every statement that goes to the database may raise sqlite3.Error; the  *)
(* script has no handler around them, so the exception ends the process.   *)
(* The columns created_at (CURRENT_TIMESTAMP) are left out of the rows:    *)
(* the model has no clock.                                                 *)
(***************************************************************************)
EXTENDS Naturals, Sequences, FiniteSets, TLC

\* How many times the script is launched, and the shell invoked, in a behaviour.
MaxRuns == 2
MaxShell == 1

SetMax(S) == IF S = {} THEN 0 ELSE CHOOSE m \in S : \A n \in S : n <= m

----------------------------------------------------------------------------
(* The store and the SQL statements the two programs send to it.           *)

Obj(type, name) == [type |-> type, name |-> name]

\* sqlite_master rows a CREATE TABLE adds: the table and the automatic
\* indexes of its UNIQUE columns.
TableObjects(t) ==
    CASE t = "app_info" -> {Obj("table", "app_info"),
                            Obj("index", "sqlite_autoindex_app_info_1")}
      [] t = "users"    -> {Obj("table", "users"),
                            Obj("index", "sqlite_autoindex_users_1"),
                            Obj("index", "sqlite_autoindex_users_2")}
      [] t = "todos"    -> {Obj("table", "todos")}

IndexObj == Obj("index", "idx_todos_is_completed")
TriggerObj == Obj("trigger", "todos_set_updated_at")
SequenceObj == Obj("table", "sqlite_sequence")

EmptyStore ==
    [catalog  |-> {},
     app_info |-> {},
     todos    |-> {},
     seq      |-> [app_info |-> 0, todos |-> 0]]

HasTable(s, t) == Obj("table", t) \in s.catalog

\* CREATE TABLE IF NOT EXISTS t (id INTEGER PRIMARY KEY AUTOINCREMENT, ...)
CreateTableIfNotExists(s, t) ==
    IF HasTable(s, t) THEN s
    ELSE [s EXCEPT !.catalog = @ \cup TableObjects(t) \cup {SequenceObj}]

\* CREATE INDEX IF NOT EXISTS idx_todos_is_completed ON todos(is_completed)
CreateIndexIfNotExists(s) == [s EXCEPT !.catalog = @ \cup {IndexObj}]

\* SELECT name FROM sqlite_master WHERE type = 'trigger' AND name = ...
TriggerExists(s) == TriggerObj \in s.catalog

\* CREATE TRIGGER todos_set_updated_at AFTER UPDATE ON todos ...
CreateTrigger(s) == [s EXCEPT !.catalog = @ \cup {TriggerObj}]

\* The rowid an AUTOINCREMENT table gives its next row.
NextId(s, t, rows) == SetMax({s.seq[t]} \cup {r.id : r \in rows}) + 1

\* As InsertOrReplace, were the row that holds the key left in place.
InsertOrReplaceNoDelete(s, key, value) ==
    LET id == SetMax({s.seq.app_info} \cup {r.id : r \in s.app_info}) + 1
    IN  [s EXCEPT !.app_info = @ \cup {[id |-> id, key |-> key, value |-> value]},
                  !.seq.app_info = id]

\* INSERT OR REPLACE INTO app_info (key, value) VALUES (?, ?): the row that
\* holds the key is deleted and a new row is inserted under a new rowid.
InsertOrReplace(s, key, value) ==
    LET kept == {r \in s.app_info : r.key # key}
        id   == NextId(s, "app_info", s.app_info)
    IN  [s EXCEPT !.app_info = kept \cup {[id |-> id, key |-> key, value |-> value]},
                  !.seq.app_info = id]

\* INSERT INTO todos (title, description, is_completed) VALUES (?, ?, ?)
InsertTodo(s, title, description, is_completed) ==
    LET id == NextId(s, "todos", s.todos)
    IN  [s EXCEPT !.todos = @ \cup {[id |-> id, title |-> title,
                                     description |-> description,
                                     is_completed |-> is_completed,
                                     updated_at |-> "NULL"]},
                  !.seq.todos = id]

\* As LikeSqlite, were the pattern compared as a plain string.
LikeSqliteLiteral(name) == name = "sqlite_%"

\* name LIKE 'sqlite_%': "sqlite", one more character, then anything.
LikeSqlite(name) == Len(name) >= 7 /\ SubSeq(name, 1, 6) = "sqlite"

\* SELECT COUNT(*) FROM sqlite_master WHERE type='table' AND name NOT LIKE 'sqlite_%'
CountUserTables(s) ==
    Cardinality({o \in s.catalog : o.type = "table" /\ ~LikeSqlite(o.name)})

CountAppInfo(s) == Cardinality(s.app_info)
CountTodos(s) == Cardinality(s.todos)
CountCompleted(s) == Cardinality({r \in s.todos : r.is_completed = 1})

app_info_rows ==
    << [key |-> "project_name", value |-> "database"],
       [key |-> "version",      value |-> "0.1.0"],
       [key |-> "author",       value |-> "John Doe"],
       [key |-> "description",  value |-> ""] >>

sample_todos ==
    << [title |-> "Set up project",  description |-> "Initialize repository and basic structure", is_completed |-> 1],
       [title |-> "Build backend",   description |-> "Implement FastAPI endpoints for todos",     is_completed |-> 0],
       [title |-> "Create frontend", description |-> "Build React UI for managing tasks",         is_completed |-> 0],
       [title |-> "Write tests",     description |-> "Add unit/integration tests",                is_completed |-> 0] >>

----------------------------------------------------------------------------
(* The state of one launch of init_db.py and of the store it works on.     *)

VARIABLES
    disk,           \* the committed content of the database file
    tx,             \* the content as the script's connection sees it
    inTx,           \* the connection has an open (implicit) transaction
    fileExists,     \* os.path.exists(DB_NAME)
    pc,             \* the statement the script is at
    run,            \* which launch of the script this is
    probe,          \* the connection of the accessibility check (lines 45-47)
    conn,           \* the connection of line 55
    trigger_exists, todo_count, seedIdx,
    stats,          \* table_count, record_count, todo_total, todo_completed
    trace,          \* the statements this launch has sent, in order
    raisedAt,       \* the statement whose exception ended this launch
    first,          \* the first complete launch: its number, the store and the
                    \* statistics it ended with
    shCount,        \* how many times the shell has run
    shCmd, shRaised, rows, shOut, shErr, shExit, shConn   \* its last run: the statement,
                    \* the call that raised, the rows fetched, stdout, stderr, exit status

scriptVars == <<fileExists, pc, run, probe, conn, trigger_exists, todo_count,
                seedIdx, stats, trace, raisedAt, first>>
storeVars == <<disk, tx, inTx>>
shellVars == <<shCount, shCmd, shRaised, rows, shOut, shErr, shExit, shConn>>
vars == <<storeVars, scriptVars, shellVars>>

\* A statistic is <<>> while its variable is unbound and <<n>> once assigned.
Unset == [table_count |-> <<>>, record_count |-> <<>>,
          todo_total |-> <<>>, todo_completed |-> <<>>]
NoFirst == [done |-> FALSE, run |-> 0, store |-> EmptyStore, stats |-> Unset]

Tables == <<"app_info", "users", "todos">>
CreateLabel(t) == "create_" \o t
UpsertLabel(k) == "upsert_" \o app_info_rows[k].key
StatNames == <<"table_count", "record_count", "todo_total", "todo_completed">>
StatLabel(j) == "stat_" \o StatNames[j]

\* The statements of the script in program order (lines 55-163).
Prog ==
    <<"connect", "pragma">>
    \o [i \in 1..Len(Tables) |-> CreateLabel(Tables[i])]
    \o <<"create_index", "select_trigger", "create_trigger">>
    \o [k \in 1..Len(app_info_rows) |-> UpsertLabel(k)]
    \o <<"count_todos", "seed", "commit">>
    \o [j \in 1..Len(StatNames) |-> StatLabel(j)]
    \o <<"close">>

Pos(label) == CHOOSE i \in 1..Len(Prog) : Prog[i] = label
After(label) == IF Pos(label) = Len(Prog) THEN "report" ELSE Prog[Pos(label) + 1]

Ended == {"Completed", "Failed"}
Running == pc \notin {"NotStarted"} \cup Ended

Init ==
    /\ disk = EmptyStore /\ tx = EmptyStore /\ inTx = FALSE
    /\ fileExists = FALSE
    /\ pc = "NotStarted" /\ run = 1
    /\ probe = "none" /\ conn = "none"
    /\ trigger_exists = FALSE /\ todo_count = 0 /\ seedIdx = 1
    /\ stats = Unset
    /\ trace = <<>> /\ raisedAt = "none" /\ first = NoFirst
    /\ shCount = 0 /\ shCmd = "none" /\ shRaised = "none" /\ rows = <<>> /\ shOut = <<>>
    /\ shErr = FALSE /\ shExit = 0 /\ shConn = "none"

\* As Raise, were the pending transaction committed on the way out.
RaiseCommit(label) ==
    /\ pc' = "Failed"
    /\ raisedAt' = label
    /\ trace' = Append(trace, label)
    /\ tx' = tx /\ inTx' = FALSE /\ disk' = tx

\* As Raise, were the error swallowed and the script to go on.
RaiseAndContinue(label) ==
    /\ pc' = After(label)
    /\ raisedAt' = label
    /\ trace' = Append(trace, label)
    /\ UNCHANGED storeVars

\* An uncaught sqlite3.Error at statement `label`: the traceback ends the
\* process.  No later statement runs, conn.close() (line 163) is not reached,
\* and what the connection had not committed is gone with it.
Raise(label) ==
    /\ pc' = "Failed"
    /\ raisedAt' = label
    /\ trace' = Append(trace, label)
    /\ tx' = disk /\ inTx' = FALSE /\ disk' = disk

\* Statement `label` executed; the script goes on to `next`.
Step(label, next) ==
    /\ pc' = next
    /\ trace' = Append(trace, label)
    /\ raisedAt' = raisedAt

\* A DDL statement: sqlite3 opens no transaction for it, so outside a
\* transaction it is committed as it executes.
ExecDDL(s) ==
    /\ tx' = s
    /\ disk' = IF inTx THEN disk ELSE s
    /\ inTx' = inTx

\* As ExecDML, were the connection in autocommit mode.
ExecDMLAutocommit(s) ==
    /\ tx' = s
    /\ inTx' = FALSE
    /\ disk' = s

\* A DML statement: sqlite3 begins a transaction before it if none is open;
\* the write stays in the connection until commit().
ExecDML(s) ==
    /\ tx' = s
    /\ inTx' = TRUE
    /\ disk' = disk

\* Lines 37-52: the existence check and, for an existing file, the probe
\* connection.  Its errors are caught and reported as a warning; when
\* "SELECT 1" raises, the probe's close() is skipped.
Start ==
    /\ pc = "NotStarted"
    /\ pc' = "connect"
    /\ IF fileExists
         THEN probe' \in {"closed", "open", "none"}
         ELSE probe' = "none"
    /\ UNCHANGED <<storeVars, fileExists, run, conn, trigger_exists, todo_count,
                   seedIdx, stats, trace, raisedAt, first, shellVars>>

\* Lines 55-56: sqlite3.connect(DB_NAME) creates the file if it is missing.
Connect ==
    /\ pc = "connect"
    /\ \/ /\ Step("connect", After("connect"))
          /\ conn' = "open" /\ fileExists' = TRUE
          /\ UNCHANGED storeVars
       \/ /\ Raise("connect")
          /\ UNCHANGED <<conn, fileExists>>
    /\ UNCHANGED <<run, probe, trigger_exists, todo_count, seedIdx, stats, first,
                   shellVars>>

\* Line 59: PRAGMA foreign_keys = ON
Pragma ==
    /\ pc = "pragma"
    /\ \/ Step("pragma", After("pragma")) /\ UNCHANGED storeVars
       \/ Raise("pragma")
    /\ UNCHANGED <<fileExists, run, probe, conn, trigger_exists, todo_count,
                   seedIdx, stats, first, shellVars>>

\* Lines 62-91: the three CREATE TABLE IF NOT EXISTS statements.
CreateTable(t) ==
    /\ pc = CreateLabel(t)
    /\ \/ Step(CreateLabel(t), After(CreateLabel(t)))
          /\ ExecDDL(CreateTableIfNotExists(tx, t))
       \/ Raise(CreateLabel(t))
    /\ UNCHANGED <<fileExists, run, probe, conn, trigger_exists, todo_count,
                   seedIdx, stats, first, shellVars>>

\* Lines 94-97
CreateIndex ==
    /\ pc = "create_index"
    /\ \/ /\ HasTable(tx, "todos")
          /\ Step("create_index", After("create_index"))
          /\ ExecDDL(CreateIndexIfNotExists(tx))
       \/ Raise("create_index")
    /\ UNCHANGED <<fileExists, run, probe, conn, trigger_exists, todo_count,
                   seedIdx, stats, first, shellVars>>

\* Lines 102-108: the catalog query that stands in for IF NOT EXISTS.
SelectTrigger ==
    /\ pc = "select_trigger"
    /\ \/ /\ trigger_exists' = TriggerExists(tx)
          /\ Step("select_trigger",
                  IF ~trigger_exists' THEN "create_trigger" ELSE After("create_trigger"))
          /\ UNCHANGED storeVars
       \/ Raise("select_trigger") /\ UNCHANGED trigger_exists
    /\ UNCHANGED <<fileExists, run, probe, conn, todo_count, seedIdx, stats, first,
                   shellVars>>

\* Lines 109-118: CREATE TRIGGER fails when the trigger is there already.
CreateTriggerStmt ==
    /\ pc = "create_trigger"
    /\ \/ /\ ~TriggerExists(tx) /\ HasTable(tx, "todos")
          /\ Step("create_trigger", After("create_trigger"))
          /\ ExecDDL(CreateTrigger(tx))
       \/ Raise("create_trigger")
    /\ UNCHANGED <<fileExists, run, probe, conn, trigger_exists, todo_count,
                   seedIdx, stats, first, shellVars>>

\* Lines 121-128: the four INSERT OR REPLACE statements.
Upsert(k) ==
    /\ pc = UpsertLabel(k)
    /\ \/ /\ HasTable(tx, "app_info")
          /\ Step(UpsertLabel(k), After(UpsertLabel(k)))
          /\ ExecDML(InsertOrReplace(tx, app_info_rows[k].key, app_info_rows[k].value))
       \/ Raise(UpsertLabel(k))
    /\ UNCHANGED <<fileExists, run, probe, conn, trigger_exists, todo_count,
                   seedIdx, stats, first, shellVars>>

\* As NeedsSeed, were the guard missing.
NeedsSeedAlways(n) == TRUE

\* Line 133: if todo_count == 0
NeedsSeed(n) == n = 0

\* Lines 131-133: SELECT COUNT(*) FROM todos, and the branch on it.
CountTodosStmt ==
    /\ pc = "count_todos"
    /\ \/ /\ HasTable(tx, "todos")
          /\ todo_count' = CountTodos(tx)
          /\ seedIdx' = 1
          /\ Step("count_todos", IF NeedsSeed(todo_count') THEN "seed" ELSE After("seed"))
          /\ UNCHANGED storeVars
       \/ Raise("count_todos") /\ UNCHANGED <<todo_count, seedIdx>>
    /\ UNCHANGED <<fileExists, run, probe, conn, trigger_exists, stats, first,
                   shellVars>>

\* Lines 140-144: one turn of the loop over sample_todos.
Seed ==
    /\ pc = "seed"
    /\ \/ /\ HasTable(tx, "todos")
          /\ Step("seed", IF seedIdx = Len(sample_todos) THEN After("seed") ELSE "seed")
          /\ ExecDML(InsertTodo(tx, sample_todos[seedIdx].title,
                                sample_todos[seedIdx].description,
                                sample_todos[seedIdx].is_completed))
          /\ seedIdx' = seedIdx + 1
       \/ Raise("seed") /\ UNCHANGED seedIdx
    /\ UNCHANGED <<fileExists, run, probe, conn, trigger_exists, todo_count, stats,
                   first, shellVars>>

\* Line 147: conn.commit()
Commit ==
    /\ pc = "commit"
    /\ \/ /\ Step("commit", After("commit"))
          /\ disk' = tx /\ tx' = tx /\ inTx' = FALSE
       \/ Raise("commit")
    /\ UNCHANGED <<fileExists, run, probe, conn, trigger_exists, todo_count,
                   seedIdx, stats, first, shellVars>>

StatValue(j, s) ==
    CASE j = 1 -> CountUserTables(s)
      [] j = 2 -> CountAppInfo(s)
      [] j = 3 -> CountTodos(s)
      [] j = 4 -> CountCompleted(s)

\* Lines 150-160: the four statistics queries.  Nothing catches their errors.
Stat(j) ==
    /\ pc = StatLabel(j)
    /\ \/ /\ Step(StatLabel(j), After(StatLabel(j)))
          /\ stats' = [stats EXCEPT ![StatNames[j]] = <<StatValue(j, tx)>>]
          /\ UNCHANGED storeVars
       \/ Raise(StatLabel(j)) /\ UNCHANGED stats
    /\ UNCHANGED <<fileExists, run, probe, conn, trigger_exists, todo_count,
                   seedIdx, first, shellVars>>

\* Line 163: conn.close()
Close ==
    /\ pc = "close"
    /\ Step("close", After("close"))
    /\ conn' = "closed"
    /\ tx' = disk /\ inTx' = FALSE /\ disk' = disk
    /\ UNCHANGED <<fileExists, run, probe, trigger_exists, todo_count, seedIdx,
                   stats, first, shellVars>>

\* Lines 165-224: the connection files (their errors are warnings), the
\* statistics and "Script completed successfully."
Report ==
    /\ pc = "report"
    /\ pc' = "Completed"
    /\ first' = IF first.done THEN first
                ELSE [done |-> TRUE, run |-> run, store |-> disk, stats |-> stats]
    /\ UNCHANGED <<storeVars, fileExists, run, probe, conn, trigger_exists,
                   todo_count, seedIdx, stats, trace, raisedAt, shellVars>>

\* The script is launched again: a new process, with nothing of the last one
\* but the database file.
Relaunch ==
    /\ pc \in Ended
    /\ run < MaxRuns
    /\ run' = run + 1
    /\ pc' = "NotStarted"
    /\ probe' = "none" /\ conn' = "none"
    /\ trigger_exists' = FALSE /\ todo_count' = 0 /\ seedIdx' = 1
    /\ stats' = Unset
    /\ trace' = <<>> /\ raisedAt' = "none"
    /\ UNCHANGED <<storeVars, fileExists, first, shellVars>>

ScriptNext ==
    \/ Start
    \/ Connect
    \/ Pragma
    \/ \E i \in 1..Len(Tables) : CreateTable(Tables[i])
    \/ CreateIndex
    \/ SelectTrigger
    \/ CreateTriggerStmt
    \/ \E k \in 1..Len(app_info_rows) : Upsert(k)
    \/ CountTodosStmt
    \/ Seed
    \/ Commit
    \/ \E j \in 1..Len(StatNames) : Stat(j)
    \/ Close
    \/ Report
    \/ Relaunch

\* The script alone, on a store nothing else writes to.
SpecScript == Init /\ [][ScriptNext]_vars

----------------------------------------------------------------------------
(* db_shell.py: one SQL statement, given with -c, against the same file.   *)

Text(v) == [t |-> "text", v |-> v]
Int(n) == [t |-> "int", n |-> n]

\* The rows of S as a sequence in rowid order.
RECURSIVE ById(_)
ById(S) ==
    IF S = {} THEN <<>>
    ELSE LET r == CHOOSE x \in S : \A y \in S : x.id <= y.id
         IN  <<r>> \o ById(S \ {r})

SelectCompletedTitles == "SELECT title FROM todos WHERE is_completed=1"
SelectIdTitle == "SELECT id, title FROM todos"
SelectCount == "SELECT COUNT(*) FROM todos"
InsertX == "INSERT INTO todos (title) VALUES ('x')"
DeleteAll == "DELETE FROM todos"
UpdateAll == "UPDATE todos SET is_completed = 1"
DropTodos == "DROP TABLE todos"

ShellCommands == {SelectCompletedTitles, SelectIdTitle, SelectCount,
                  InsertX, DeleteAll, UpdateAll, DropTodos}
DDLCommands == {DropTodos}

\* UPDATE todos SET is_completed = 1; the trigger, where it exists, stamps
\* updated_at on each row updated.
UpdateTodos(s) ==
    [s EXCEPT !.todos =
        {[r EXCEPT !.is_completed = 1,
                   !.updated_at = IF TriggerExists(s) THEN "CURRENT_TIMESTAMP" ELSE @]
            : r \in s.todos}]

\* DROP TABLE todos takes the table's rows, index, trigger and
\* sqlite_sequence entry with it.
DropTable(s) ==
    [s EXCEPT !.catalog = @ \ {Obj("table", "todos"), IndexObj, TriggerObj},
              !.todos = {},
              !.seq.todos = 0]

\* What the engine does with statement cmd on store s: whether it executes,
\* the store it leaves and the rows cursor.fetchall() returns.
Execute(cmd, s) ==
    IF ~HasTable(s, "todos") THEN [ok |-> FALSE, store |-> s, rows |-> <<>>]
    ELSE CASE cmd = SelectCompletedTitles ->
                [ok |-> TRUE, store |-> s,
                 rows |-> LET rs == ById({r \in s.todos : r.is_completed = 1})
                          IN  [i \in 1..Len(rs) |-> <<Text(rs[i].title)>>]]
           [] cmd = SelectIdTitle ->
                [ok |-> TRUE, store |-> s,
                 rows |-> LET rs == ById(s.todos)
                          IN  [i \in 1..Len(rs) |-> <<Int(rs[i].id), Text(rs[i].title)>>]]
           [] cmd = SelectCount ->
                [ok |-> TRUE, store |-> s, rows |-> << <<Int(CountTodos(s))>> >>]
           [] cmd = InsertX ->
                [ok |-> TRUE, store |-> InsertTodo(s, "x", "NULL", 0), rows |-> <<>>]
           [] cmd = DeleteAll ->
                [ok |-> TRUE, store |-> [s EXCEPT !.todos = {}], rows |-> <<>>]
           [] cmd = UpdateAll ->
                [ok |-> TRUE, store |-> UpdateTodos(s), rows |-> <<>>]
           [] cmd = DropTodos ->
                [ok |-> TRUE, store |-> DropTable(s), rows |-> <<>>]

\* str(col)
Str(col) == IF col.t = "int" THEN ToString(col.n) ELSE col.v

\* "\t".join([str(col) for col in row])
RECURSIVE JoinTab(_)
JoinTab(row) ==
    IF Len(row) = 0 THEN ""
    ELSE IF Len(row) = 1 THEN Str(row[1])
    ELSE Str(row[1]) \o "\t" \o JoinTab(Tail(row))

\* Line 35-36: for row in rows: print(...)
PrintRows(rs) == [i \in 1..Len(rs) |-> JoinTab(rs[i])]

FailPoints == {"none", "connect", "execute", "fetchall", "commit"}

\* As ShellRun, were the rows printed before conn.commit().
ShellRunPrintEarly(cmd, failAt, s) ==
    LET e        == Execute(cmd, s)
        raised   == IF failAt = "connect" THEN "connect"
                    ELSE IF failAt = "execute" \/ ~e.ok THEN "execute"
                    ELSE failAt
        executed == raised \in {"none", "fetchall", "commit"}
        fetched  == raised \in {"none", "commit"}
    IN  [store  |-> IF raised = "none" \/ (executed /\ cmd \in DDLCommands)
                      THEN e.store ELSE s,
         rows   |-> IF fetched THEN e.rows ELSE <<>>,
         out    |-> IF fetched THEN PrintRows(e.rows) ELSE <<>>,
         err    |-> raised # "none",
         exit   |-> IF raised = "none" THEN 0 ELSE 1,
         conn   |-> IF raised = "connect" THEN "none" ELSE "closed",
         raised |-> raised]

\* Lines 29-44 of main(): connect, execute, fetchall, commit, print; any
\* sqlite3.Error goes to stderr and sys.exit(1); the finally clause closes
\* the connection (and swallows the NameError when connect itself failed).
\* failAt is the call that raises for a reason of the engine's own (I/O,
\* lock); a statement on a missing table raises at execute.
ShellRun(cmd, failAt, s) ==
    LET e        == Execute(cmd, s)
        raised   == IF failAt = "connect" THEN "connect"
                    ELSE IF failAt = "execute" \/ ~e.ok THEN "execute"
                    ELSE failAt
        executed == raised \in {"none", "fetchall", "commit"}
        fetched  == raised \in {"none", "commit"}
    IN  [store  |-> IF raised = "none" \/ (executed /\ cmd \in DDLCommands)
                      THEN e.store ELSE s,
         rows   |-> IF fetched THEN e.rows ELSE <<>>,
         out    |-> IF raised = "none" THEN PrintRows(e.rows) ELSE <<>>,
         err    |-> raised # "none",
         exit   |-> IF raised = "none" THEN 0 ELSE 1,
         conn   |-> IF raised = "connect" THEN "none" ELSE "closed",
         raised |-> raised]

\* One run of the shell, while the script is not running (the two are not
\* meant to work on the file at the same time).
ShellMain ==
    /\ ~Running
    /\ shCount < MaxShell
    /\ \E cmd \in ShellCommands, failAt \in FailPoints :
          LET r == ShellRun(cmd, failAt, disk)
          IN  /\ shCmd' = cmd /\ shRaised' = r.raised
              /\ disk' = r.store /\ tx' = r.store /\ inTx' = FALSE
              /\ rows' = r.rows /\ shOut' = r.out /\ shErr' = r.err
              /\ shExit' = r.exit /\ shConn' = r.conn
              /\ fileExists' = (fileExists \/ r.conn # "none")
    /\ shCount' = shCount + 1
    /\ UNCHANGED <<pc, run, probe, conn, trigger_exists, todo_count, seedIdx,
                   stats, trace, raisedAt, first>>

Next == ScriptNext \/ ShellMain

\* The script and the shell, one at a time, on the same file.
Spec == Init /\ [][Next]_vars

----------------------------------------------------------------------------
(* Properties.                                                             *)

Summary(s) ==
    [catalog |-> s.catalog, app_info |-> Cardinality(s.app_info),
     todos |-> Cardinality(s.todos)]

\* C1: on a store nothing else writes to, every complete launch ends with
\* the tables, indexes and triggers, the row counts of app_info and todos and
\* the reported statistics that the first complete launch ended with.
C1_RerunAddsNothing ==
    (pc = "Completed" /\ first.done) =>
        /\ Summary(disk) = Summary(first.store)
        /\ stats = first.stats

C1_Witness == pc = "Completed" /\ first.done /\ first.run < run

Seeded(s) == {[title |-> r.title, description |-> r.description,
               is_completed |-> r.is_completed] : r \in s}

\* C2: when the seeding step is over, the launch has added exactly the four
\* sample rows if todos was empty when the step ran, and no row at all if it
\* held any row, seeded or not, whatever the launches before it did.
C2_SeedGuard ==
    pc = "commit" =>
        /\ todo_count = Cardinality(disk.todos)
        /\ IF disk.todos = {}
             THEN /\ Cardinality(tx.todos) = 4
                  /\ Seeded(tx.todos) = {sample_todos[i] : i \in 1..Len(sample_todos)}
             ELSE tx.todos = disk.todos

C2_Witness ==
    /\ pc = "commit" /\ run > 1
    /\ todo_count = 1
    /\ \E r \in disk.todos : r.title = "x"
    /\ tx.todos = disk.todos

\* The statements of this launch that completed before the one that raised.
Executed == IF pc = "Failed" THEN SubSeq(trace, 1, Len(trace) - 1) ELSE trace
Done(label) == \E i \in 1..Len(Executed) : Executed[i] = label
SeedsDone == Cardinality({i \in 1..Len(Executed) : Executed[i] = "seed"})

SchemaPersists ==
    /\ \A i \in 1..Len(Tables) : Done(CreateLabel(Tables[i])) => HasTable(disk, Tables[i])
    /\ Done("create_index") => IndexObj \in disk.catalog
    /\ Done("create_trigger") => TriggerObj \in disk.catalog

RowsPersist ==
    /\ \A k \in 1..Len(app_info_rows) :
          Done(UpsertLabel(k)) => \E r \in disk.app_info : r.key = app_info_rows[k].key
    /\ \A i \in 1..SeedsDone : \E r \in disk.todos : r.title = sample_todos[i].title

\* C3, as claimed: after a launch that failed, the effect of every statement
\* that completed before the failure is committed.
C3_EachStepCommits == pc = "Failed" => (SchemaPersists /\ RowsPersist)

\* C3, amended: after a launch that failed the schema objects of the DDL
\* statements that completed are committed, and the rows of the upserts and
\* seed inserts that completed are committed if the commit statement had
\* completed; no statement of the script other than the commit, and no
\* failure, changes the committed rows or removes a committed schema object.
C3_SchemaCommitsRowsAtCommit ==
    /\ [](pc = "Failed" => (SchemaPersists /\ (Done("commit") => RowsPersist)))
    /\ [][run' = run /\ shCount' = shCount =>
            /\ disk.catalog \subseteq disk'.catalog
            /\ pc # "commit" => /\ disk'.app_info = disk.app_info
                                /\ disk'.todos = disk.todos
                                /\ disk'.seq = disk.seq]_vars

C3_Witness ==
    /\ pc = "Failed" /\ raisedAt = "seed" /\ SeedsDone = 2
    /\ HasTable(disk, "todos")
    /\ disk.app_info = {} /\ disk.todos = {}

Phase == IF pc = "NotStarted" THEN 0 ELSE IF pc \in Ended THEN 2 ELSE 1

\* C4: a launch goes from not started to running to completed or failed and
\* never back; the statement that raises is the last one the launch sends,
\* the launch then is failed and not completed, and no statement is sent
\* twice (the seed insert, once for each sample row).
C4_FailFast ==
    /\ [][run' = run =>
            /\ Phase' \in {Phase, Phase + 1}
            /\ pc \in Ended => (pc' = pc /\ trace' = trace /\ raisedAt' = raisedAt)
            /\ raisedAt' # "none" => pc' = "Failed"]_vars
    /\ [](/\ pc = "Completed" => raisedAt = "none"
          /\ pc = "Failed" => (raisedAt # "none" /\ trace[Len(trace)] = raisedAt)
          /\ \A i \in 1..Len(trace) - 1 :
                \/ Pos(trace[i]) < Pos(trace[i + 1])
                \/ trace[i] = "seed" /\ trace[i + 1] = "seed"
          /\ Cardinality({i \in 1..Len(trace) : trace[i] = "seed"}) <= Len(sample_todos))

C4_Witness ==
    /\ pc = "Failed" /\ raisedAt = "create_index"
    /\ Done("create_todos") /\ ~Done("create_index")

\* C5, as claimed: when a launch of the script or a run of the shell is
\* over, every connection it opened has been closed.
C5_HandleReleased ==
    /\ pc \in Ended => (conn # "open" /\ probe # "open")
    /\ shCount > 0 => shConn # "open"

\* C6: the first launch, on a fresh store, when it completes reports 3
\* tables, 4 app_info records and 4 todos, 1 of them completed and 3 pending.
C6_FreshStatistics ==
    (pc = "Completed" /\ run = 1) =>
        /\ stats = [table_count |-> <<3>>, record_count |-> <<4>>,
                    todo_total |-> <<4>>, todo_completed |-> <<1>>]
        /\ Cardinality({r \in disk.todos : r.is_completed = 0}) = 3

C6_Witness == pc = "Completed" /\ run = 1 /\ ~trigger_exists /\ todo_count = 0

StatLabels == {StatLabel(j) : j \in 1..Len(StatNames)}

\* C7, as claimed: a statistics query that raises does not make the launch
\* fail, and the launch still ends with its connection closed.
C7_StatisticsNonFatal ==
    raisedAt \in StatLabels => (pc # "Failed" /\ (pc \in Ended => conn = "closed"))

\* What a successful run of statement cmd prints on store s, line by line.
Expected(cmd, s) ==
    CASE cmd = SelectCompletedTitles ->
            LET rs == ById({r \in s.todos : r.is_completed = 1})
            IN  [i \in 1..Len(rs) |-> rs[i].title]
      [] cmd = SelectIdTitle ->
            LET rs == ById(s.todos)
            IN  [i \in 1..Len(rs) |-> ToString(rs[i].id) \o "\t" \o rs[i].title]
      [] cmd = SelectCount -> <<ToString(Cardinality(s.todos))>>
      [] OTHER -> <<>>

\* C8: a run of the shell in which connect, execute, fetchall or commit
\* raises prints a diagnostic, prints no row and exits 1; a run in which
\* nothing raises prints the statement's rows, one tab-separated line each,
\* and exits 0.  A statement on a missing table raises.
C8_ShellSurfacesErrors ==
    [][shCount' # shCount =>
        /\ ~HasTable(disk, "todos") => shRaised' # "none"
        /\ shRaised' # "none" => (shErr' /\ shExit' = 1 /\ shOut' = <<>>)
        /\ shRaised' = "none" =>
              (~shErr' /\ shExit' = 0 /\ shOut' = Expected(shCmd', disk))]_vars

C8_Witness ==
    /\ shRaised = "commit" /\ shCmd = SelectIdTitle
    /\ Len(rows) = 4 /\ shOut = <<>> /\ shExit = 1 /\ shErr

\* C9, as claimed: a complete launch on the store a complete launch has
\* left leaves the store as it was, rows and ids included.
C9_FullIdempotency == (pc = "Completed" /\ first.done) => disk = first.store

\* C10: on a store nothing else writes to, the committed todos table holds
\* no row or the four sample rows, never one to three.
C10_NoPartialSeed == Cardinality(disk.todos) \in {0, Len(sample_todos)}

C10_Witness ==
    /\ pc = "Failed" /\ raisedAt = "seed"
    /\ SeedsDone = Len(sample_todos) - 1
    /\ Cardinality(disk.todos) = 0

====
